---------------------------- MODULE Spec2Model ----------------------------
(***************************************************************************)
(* Model of the data-freshness layer of pipeline-monitor's main process:   *)
(*   - ApiCache            (src/main/cache.ts)                             *)
(*   - cachedFetch and the IPC handlers (src/main/ipc-handlers.ts)         *)
(*   - the build-state notifier (src/main/notifier.ts)                     *)
(* and of the polling hook of the renderer that consumes it:               *)
(*   - usePolling          (src/renderer/src/hooks/useJenkins.ts)          *)
(*                                                                         *)
(* Strings are sequences of symbols so that String.startsWith and the      *)
(* template literals that build cache keys are computed, not assumed.      *)
(* The literal parts of a key ("builds:", "items:", ...) are one symbol    *)
(* each; job fullnames and decimal numbers are spelled symbol by symbol.   *)
(***************************************************************************)
EXTENDS Integers, Sequences, FiniteSets, TLC

VARIABLES
    store,          \* ApiCache.store : key -> [data, timestamp, ttl]
    now,            \* Date.now(), in ms
    inFlight,       \* ipc-handlers inFlight : key -> promise id
    promises,       \* the fetcher invocations not yet settled, by promise id
    calls,          \* the promise each cachedFetch call that missed the cache got
    settled,        \* promise id -> "resolved" or "rejected", once settled
    ret,            \* the last direct call on the apiCache singleton and its result,
                    \* or the last handler call that ensureConfigured rejected
    settings,       \* electron-store settings (store.ts)
    serverProfiles, \* electron-store serverProfiles (store.ts)
    api,            \* ipc-handlers `api` : <<>> (null) or <<config>>
    mutating,       \* mutating handlers awaiting their remote call
    stageFetches,   \* jenkins:get-stages calls awaiting getApi().getStages
    outside,        \* outside the program: how far the remote server's builds
                    \* have come, and the build results the user has been shown
    notifierApi,    \* notifier `api` : <<>> (null) or <<config>>
    previousStates, \* notifier previousStates : fullname -> BuildState
    notifiedInputs, \* notifier notifiedInputs : set of input keys
    cycles,         \* the checkForChanges invocations suspended at an await
    emitted,        \* the notifications the latest step of the detector emitted
    firstSeen,      \* the items that step recorded for the first time
    observed,       \* the input keys the response handled by that step carried
    seenInputs,     \* input keys a response carried since the last reconfiguration
    lastTrayStatus, \* index.ts lastTrayStatus
    pollTimer,      \* notifier pollTimer : TRUE while the interval timer is set
    stateOrigin,    \* fullname -> the server its previousStates entry came from
    inputOrigin,    \* input key -> the server whose inventory named its build
    delivered,      \* the status the latest detector step called the callbacks with
    lastStep,       \* the latest step of a detector cycle
    visible,        \* useJenkins.ts _visible
    mounted,        \* the component that calls usePolling : "no", "yes", "gone"
    intervalMs,     \* usePolling argument intervalMs
    enabled,        \* usePolling argument enabled
    hookData,       \* usePolling state data : << >> (null) or <<object identity>>
    loading,        \* usePolling state loading
    error,          \* usePolling state error : << >> (null) or <<message>>
    timers,         \* the interval timers of the hook that are set : id -> timer
    cleanup,        \* the timer the cleanup of the latest effect run clears
    pending,        \* the refresh calls awaiting fetchRef.current()
    started,        \* the number of fetches the hook has started
    pollStep,       \* the latest step of the hook
    arg,            \* the arguments of the latest call of a pure function
    result          \* what that call returned

cacheVars == <<store, now>>

coordVars == <<inFlight, promises, calls, settled, settings, serverProfiles,
               api, mutating>>

notifierVars == <<notifierApi, previousStates, notifiedInputs, cycles, emitted,
                  firstSeen, observed, seenInputs, lastTrayStatus, pollTimer,
                  stateOrigin, inputOrigin, delivered, lastStep>>

rendererVars == <<visible, mounted, intervalMs, enabled, hookData, loading,
                  error,
                  timers, cleanup, pending, started, pollStep>>

pureVars == <<arg, result>>

stageVars == <<stageFetches>>

outsideVars == <<outside>>

otherVars == <<rendererVars, pureVars, stageVars, outsideVars>>

vars == <<store, now, ret, inFlight, promises, calls, settled, settings,
          serverProfiles, api, mutating, stageFetches, outside,
          notifierApi, previousStates, notifiedInputs, cycles, emitted,
          firstSeen, observed, seenInputs, lastTrayStatus, pollTimer,
          stateOrigin, inputOrigin, delivered, lastStep,
          visible, mounted, intervalMs, enabled, hookData, loading, error,
          timers, cleanup, pending, started, pollStep, arg, result>>

---------------------------------------------------------------------------
(* Bounds *)

MaxCalls == 2

MaxMutations == 1

MaxNow == 20000

MaxEntries == 2

MaxCycles == 1

MaxItems == 2

MaxFetches == 4

MaxStages == 2

MaxOverlap == 2

CacheDelays == {10000}

CoordDelays == {20000}

---------------------------------------------------------------------------
(* Strings *)

DigitChars == <<"0", "1", "2", "3", "4", "5", "6", "7", "8", "9">>

RECURSIVE NumToStr(_)
NumToStr(n) ==
    IF n < 10 THEN <<DigitChars[n + 1]>>
    ELSE NumToStr(n \div 10) \o <<DigitChars[(n % 10) + 1]>>

StartsWith(s, p) ==
    /\ Len(p) <= Len(s)
    /\ SubSeq(s, 1, Len(p)) = p

Fullnames == { <<"a">>, <<"a", "b">> }

Undefined == << >>

Limits == { Undefined, <<2>> }

---------------------------------------------------------------------------
(* cache.ts *)

CacheTTL == [ ITEMS |-> 30000, NODES |-> 15000, QUEUE |-> 10000,
              BUILD_HISTORY |-> 20000, BUILD |-> 10000,
              STAGES_COMPLETED |-> 24 * 60 * 60000,
              STAGES_RUNNING |-> 10000 ]

Remove(f, K) == [k \in DOMAIN f \ K |-> f[k]]

Put(f, k, v) == [x \in DOMAIN f \cup {k} |-> IF x = k THEN v ELSE f[x]]

\* variant of the expiry test: an entry expires as soon as its ttl has elapsed
ExpiredAtOrAfter(entry, t) == t - entry.timestamp >= entry.ttl

\* the expiry test of ApiCache.get
Expired(entry, t) == t - entry.timestamp > entry.ttl

\* ApiCache.get : the value returned (<<>> for undefined) and the store after
get(st, key, t) ==
    IF key \notin DOMAIN st THEN [data |-> << >>, store |-> st]
    ELSE IF Expired(st[key], t) THEN [data |-> << >>, store |-> Remove(st, {key})]
    ELSE [data |-> <<st[key].data>>, store |-> st]

\* ApiCache.set
set(st, key, data, ttl, t) ==
    Put(st, key, [data |-> data, timestamp |-> t, ttl |-> ttl])

\* ApiCache.touch
touch(st, key, t) ==
    IF key \in DOMAIN st THEN Put(st, key, [st[key] EXCEPT !.timestamp = t])
    ELSE st

\* variant of invalidate: the prefix pass runs also when the exact key is stored
invalidateBoth(st, keyOrPrefix) ==
    Remove(st, {k \in DOMAIN st : StartsWith(k, keyOrPrefix)})

\* ApiCache.invalidate
invalidate(st, keyOrPrefix) ==
    IF keyOrPrefix \in DOMAIN st THEN Remove(st, {keyOrPrefix})
    ELSE Remove(st, {k \in DOMAIN st : StartsWith(k, keyOrPrefix)})

\* ApiCache.clear
clear(st) == << >>

---------------------------------------------------------------------------
(* cache keys built by the handlers of ipc-handlers.ts *)

ItemsAllKey == <<"items:", "all">>

RunningBuildsKey == <<"running-builds">>

QueueAllKey == <<"queue:", "all">>

\* `builds:${fullname}:${limit ?? 20}`
BuildsKey(fullname, limit) ==
    <<"builds:">> \o fullname \o <<":">> \o
        NumToStr(IF limit = Undefined THEN 20 ELSE limit[1])

\* the limit arguments the renderer passes to jenkins:get-build-history
HistoryLimits == { Undefined }

FetchKeys ==
    {ItemsAllKey, RunningBuildsKey, QueueAllKey}
        \cup {BuildsKey(f, l) : f \in Fullnames, l \in HistoryLimits}

\* variant of the invalidations: the input handlers leave the stage keys alone
InvalidateArgsNoStages(op, fullname) ==
    CASE op = "build-item" ->
            << <<"items:">>, <<"builds:">> \o fullname, RunningBuildsKey >>
      [] op = "stop-build" ->
            << <<"builds:">> \o fullname, RunningBuildsKey >>
      [] op = "cancel-queue-item" ->
            << <<"queue:">> >>
      [] op \in {"submit-input", "abort-input"} ->
            << <<"builds:">> \o fullname, RunningBuildsKey >>

\* the arguments of the apiCache.invalidate calls of each mutating handler
InvalidateArgs(op, fullname) ==
    CASE op = "build-item" ->
            << <<"items:">>, <<"builds:">> \o fullname, RunningBuildsKey >>
      [] op = "stop-build" ->
            << <<"builds:">> \o fullname, RunningBuildsKey >>
      [] op = "cancel-queue-item" ->
            << <<"queue:">> >>
      [] op \in {"submit-input", "abort-input"} ->
            << <<"builds:">> \o fullname, <<"stages:">> \o fullname,
               RunningBuildsKey >>

RECURSIVE invalidateAll(_, _)
invalidateAll(st, args) ==
    IF args = << >> THEN st
    ELSE invalidateAll(invalidate(st, Head(args)), Tail(args))

---------------------------------------------------------------------------
(* store.ts *)

Defaults == [ jenkinsUrl |-> "", jenkinsUsername |-> "", jenkinsToken |-> "",
              showNotifications |-> TRUE, soundAlerts |-> FALSE ]

\* the settings objects written through settings:set
ConfigInputs ==
    { [jenkinsUrl |-> u, jenkinsUsername |-> "user", jenkinsToken |-> "token"] :
        u \in {"A", "B"} }

\* a settings:set call that blanks a credential
ClearInputs == { [jenkinsToken |-> ""] }

PrefInputs ==
    { [showNotifications |-> b] : b \in BOOLEAN }
        \cup { [soundAlerts |-> b] : b \in BOOLEAN }

ProfileInputs ==
    { [name |-> "p", url |-> "B", username |-> "user", token |-> "token"] }

\* the settings persisted by an earlier run that configured server A
Configured ==
    [Defaults EXCEPT !.jenkinsUrl = "A", !.jenkinsUsername = "user",
                     !.jenkinsToken = "token"]

\* store.ts setSettings
setSettings(s, partial) ==
    [k \in DOMAIN s |-> IF k \in DOMAIN partial THEN partial[k] ELSE s[k]]

\* variant of isConfigured: the token is not looked at
isConfiguredNoToken(s) ==
    s.jenkinsUrl # "" /\ s.jenkinsUsername # ""

\* store.ts isConfigured
isConfigured(s) ==
    s.jenkinsUrl # "" /\ s.jenkinsUsername # "" /\ s.jenkinsToken # ""

\* store.ts saveServerProfile
saveServerProfile(profiles, profile) ==
    IF \E i \in 1..Len(profiles) : profiles[i].name = profile.name
    THEN [i \in 1..Len(profiles) |->
            IF i = (CHOOSE j \in 1..Len(profiles) :
                      /\ profiles[j].name = profile.name
                      /\ \A h \in 1..(j - 1) : profiles[h].name # profile.name)
            THEN profile ELSE profiles[i]]
    ELSE Append(profiles, profile)

\* the JenkinsConfig built from the settings
ConfigOf(s) ==
    [url |-> s.jenkinsUrl, username |-> s.jenkinsUsername, token |-> s.jenkinsToken]

---------------------------------------------------------------------------
(* notifier.ts refreshNotifierApi *)

\* the detector state refreshNotifierApi leaves alone
notifierRest == <<cycles, lastTrayStatus, pollTimer>>

\* a step of the detector that emits nothing and calls no status callback
emitNothing ==
    /\ emitted' = {}
    /\ firstSeen' = {}
    /\ observed' = {}
    /\ delivered' = << >>

refreshNotifierApi ==
    /\ notifierApi' = << >>
    /\ previousStates' = << >>
    /\ notifiedInputs' = {}
    /\ seenInputs' = {}
    /\ stateOrigin' = << >>
    /\ inputOrigin' = << >>
    /\ lastStep' = ""
    /\ emitNothing
    /\ UNCHANGED notifierRest

---------------------------------------------------------------------------
(* ipc-handlers.ts *)

\* getApi : the client is created from the settings when there is none
getApi(a, s) == IF a = << >> THEN <<ConfigOf(s)>> ELSE a

\* variant of refreshApi: the cache is cleared and the detector is left alone
refreshApiCacheOnly(s) ==
    /\ api' = <<ConfigOf(s)>>
    /\ store' = clear(store)
    /\ UNCHANGED notifierVars

\* refreshApi, run after the settings became s
refreshApi(s) ==
    /\ api' = <<ConfigOf(s)>>
    /\ store' = clear(store)
    /\ refreshNotifierApi

\* variant of the in-flight lookup: the map is never consulted
NoExisting(inF, key) == FALSE

\* cachedFetch step 2 : `const existing = inFlight.get(cacheKey); if (existing)`
HasExisting(inF, key) == key \in DOMAIN inF

\* variant of the .finally callback: the in-flight entry is kept
KeepInFlight(inF, key) == inF

\* variant of the .finally callback: the whole in-flight map is emptied
finallyClear(inF, key) == << >>

\* the .finally callback of cachedFetch
finallyDelete(inF, key) == Remove(inF, {key})

\* cachedFetch(cacheKey, ttl, fetcher)
cachedFetch(cacheKey, ttl) ==
    LET cached == get(store, cacheKey, now) IN
    IF cached.data # << >>
    THEN /\ store' = cached.store
         /\ UNCHANGED <<inFlight, promises, calls, api>>
    ELSE IF HasExisting(inFlight, cacheKey)
    THEN /\ Len(calls) + Len(stageFetches) < MaxCalls
         /\ calls' = Append(calls, inFlight[cacheKey])
         /\ store' = cached.store
         /\ UNCHANGED <<inFlight, promises, api>>
    ELSE /\ Len(calls) + Len(stageFetches) < MaxCalls
         /\ api' = getApi(api, settings)
         /\ promises' = Put(promises, Len(calls) + 1,
               [key |-> cacheKey, ttl |-> ttl,
                data |-> [server |-> api'[1].url, stale |-> FALSE]])
         /\ inFlight' = Put(inFlight, cacheKey, Len(calls) + 1)
         /\ calls' = Append(calls, Len(calls) + 1)
         /\ store' = cached.store

\* ensureConfigured throws: the handler's promise rejects with the error
NotConfigured == <<"Jenkins is not configured">>

Rejected ==
    [op |-> "rejected", key |-> << >>, data |-> NotConfigured, at |-> now]

\* a handler of the form `ensureConfigured(); return cachedFetch(...)`
CachedHandler(cacheKey, ttl) ==
    /\ IF ~isConfigured(settings)
       THEN /\ ret' = Rejected
            /\ UNCHANGED <<store, inFlight, promises, calls, api>>
       ELSE /\ cachedFetch(cacheKey, ttl)
            /\ UNCHANGED ret
    /\ UNCHANGED <<now, settled, settings, serverProfiles, mutating>>
    /\ UNCHANGED <<notifierVars, otherVars>>

GetAllItems == CachedHandler(ItemsAllKey, CacheTTL.ITEMS)

GetBuildHistory ==
    \E fullname \in Fullnames, limit \in HistoryLimits :
        CachedHandler(BuildsKey(fullname, limit), CacheTTL.BUILD_HISTORY)

GetRunningBuilds == CachedHandler(RunningBuildsKey, CacheTTL.NODES)

GetQueueItems == CachedHandler(QueueAllKey, CacheTTL.QUEUE)

\* the fetcher of promise p resolves: the .then callback stores the data,
\* the .finally callback removes the in-flight entry, the callers get the data
FetchResolve(p) ==
    /\ store' = set(store, promises[p].key, promises[p].data, promises[p].ttl, now)
    /\ inFlight' = finallyDelete(inFlight, promises[p].key)
    /\ promises' = Remove(promises, {p})
    /\ settled' = Put(settled, p, "resolved")
    /\ UNCHANGED <<now, ret, calls, settings, serverProfiles, api, mutating>>
    /\ UNCHANGED <<notifierVars, otherVars>>

\* the fetcher of promise p rejects: .then is skipped, .finally runs
FetchReject(p) ==
    /\ inFlight' = finallyDelete(inFlight, promises[p].key)
    /\ promises' = Remove(promises, {p})
    /\ settled' = Put(settled, p, "rejected")
    /\ UNCHANGED <<store, now, ret, calls, settings, serverProfiles, api, mutating>>
    /\ UNCHANGED <<notifierVars, otherVars>>

\* the build numbers the renderer passes to jenkins:get-stages
StageNumbers == { Undefined, <<1>> }

\* `stages:${fullname}:${number ?? 'last'}`
StageKey(fullname, number) ==
    <<"stages:">> \o fullname \o <<":">> \o
        (IF number = Undefined THEN <<"last">> ELSE NumToStr(number[1]))

StageKeys == {StageKey(f, n) : f \in Fullnames, n \in StageNumbers}

\* the statuses of JenkinsStage.status
StageStatuses == {"SUCCESS", "IN_PROGRESS", "PAUSED_PENDING_INPUT"}

\* the stage lists getStages resolves with; it never rejects, a job without
\* pipeline capability yields the empty list
StageLists ==
    UNION {[1..n -> StageStatuses] : n \in 0..MaxStages}

\* variant of isCompleted: the length of the list is not looked at
everyNotRunning(stages) ==
    \A i \in 1..Len(stages) :
        stages[i] # "IN_PROGRESS" /\ stages[i] # "PAUSED_PENDING_INPUT"

\* `stages.length > 0 && stages.every(...)`
isCompleted(stages) ==
    /\ Len(stages) > 0
    /\ \A i \in 1..Len(stages) :
        stages[i] # "IN_PROGRESS" /\ stages[i] # "PAUSED_PENDING_INPUT"

\* jenkins:get-stages up to its `await getApi().getStages(fullname, number)`
GetStages(fullname, number) ==
    /\ IF ~isConfigured(settings)
       THEN /\ ret' = Rejected
            /\ UNCHANGED <<store, api, stageFetches>>
       ELSE LET cacheKey == StageKey(fullname, number)
                cached == get(store, cacheKey, now)
            IN /\ store' = cached.store
               /\ IF cached.data # << >>
                  THEN UNCHANGED <<api, stageFetches>>
                  ELSE /\ Len(calls) + Len(stageFetches) < MaxCalls
                       /\ api' = getApi(api, settings)
                       /\ stageFetches' = Append(stageFetches,
                             [key |-> cacheKey, server |-> api'[1].url,
                              status |-> "pending"])
               /\ UNCHANGED ret
    /\ UNCHANGED <<now, inFlight, promises, calls, settled, settings,
                   serverProfiles, mutating>>
    /\ UNCHANGED <<notifierVars, rendererVars, pureVars, outsideVars>>

\* getStages of call i resolves with stages: the handler picks the ttl,
\* stores the list and returns it
StagesArrive(i, stages) ==
    /\ stageFetches[i].status = "pending"
    /\ LET ttl == IF isCompleted(stages) THEN CacheTTL.STAGES_COMPLETED
                  ELSE CacheTTL.STAGES_RUNNING
       IN store' = set(store, stageFetches[i].key,
                       [server |-> stageFetches[i].server, stale |-> FALSE,
                        stages |-> stages],
                       ttl, now)
    /\ stageFetches' = [stageFetches EXCEPT ![i].status = "returned"]
    /\ UNCHANGED <<now, ret, inFlight, promises, calls, settled, settings,
                   serverProfiles, api, mutating>>
    /\ UNCHANGED <<notifierVars, rendererVars, pureVars, outsideVars>>

\* the keys a mutating handler names in its apiCache.invalidate calls
NamedKeys(op, fullname) ==
    LET args == InvalidateArgs(op, fullname) IN
    {k \in FetchKeys : \E i \in 1..Len(args) : StartsWith(k, args[i])}

\* bookkeeping: the data of the named keys that was requested before a
\* mutating remote call completed is marked, in the store and in the promises
MarkStaleEntries(st, named) ==
    [k \in DOMAIN st |->
        IF k \in named THEN [st[k] EXCEPT !.data.stale = TRUE] ELSE st[k]]

MarkStalePromises(pr, named) ==
    [p \in DOMAIN pr |->
        IF pr[p].key \in named THEN [pr[p] EXCEPT !.data.stale = TRUE] ELSE pr[p]]

\* a mutating handler that returned, or threw the error of its remote call
Settled(outcome) == [op |-> "", fullname |-> << >>, status |-> outcome]

\* a mutating handler up to its `await getApi().<operation>(...)`
MutatingHandler(op, fullname) ==
    /\ IF ~isConfigured(settings)
       THEN /\ ret' = Rejected
            /\ UNCHANGED <<api, mutating>>
       ELSE /\ Len(mutating) < MaxMutations
            /\ api' = getApi(api, settings)
            /\ mutating' = Append(mutating,
                  [op |-> op, fullname |-> fullname, status |-> "pending"])
            /\ UNCHANGED ret
    /\ UNCHANGED <<store, now, inFlight, promises, calls, settled,
                   settings, serverProfiles>>
    /\ UNCHANGED <<notifierVars, otherVars>>

BuildItem == \E fullname \in Fullnames : MutatingHandler("build-item", fullname)

StopBuild == \E fullname \in Fullnames : MutatingHandler("stop-build", fullname)

CancelQueueItem == MutatingHandler("cancel-queue-item", << >>)

SubmitInput == \E fullname \in Fullnames : MutatingHandler("submit-input", fullname)

AbortInput == \E fullname \in Fullnames : MutatingHandler("abort-input", fullname)

\* the remote call of mutating handler i succeeded: the handler invalidates
\* and returns
MutationReturns(i) ==
    /\ mutating[i].status = "pending"
    /\ LET named == NamedKeys(mutating[i].op, mutating[i].fullname) IN
       /\ store' = MarkStaleEntries(
               invalidateAll(store,
                   InvalidateArgs(mutating[i].op, mutating[i].fullname)),
               named)
       /\ promises' = MarkStalePromises(promises, named)
    /\ mutating' = [mutating EXCEPT ![i] = Settled("returned")]
    /\ UNCHANGED <<now, ret, inFlight, calls, settled, settings, serverProfiles,
                   api>>
    /\ UNCHANGED <<notifierVars, otherVars>>

\* variant of the failing remote call: the handler invalidates, then throws
MutationThrowsInvalidating(i) ==
    /\ mutating[i].status = "pending"
    /\ store' = invalidateAll(store,
                    InvalidateArgs(mutating[i].op, mutating[i].fullname))
    /\ mutating' = [mutating EXCEPT ![i] = Settled("threw")]
    /\ UNCHANGED <<now, ret, inFlight, promises, calls, settled,
                   settings, serverProfiles, api>>
    /\ UNCHANGED <<notifierVars, otherVars>>

\* the remote call of mutating handler i failed: the handler throws
MutationThrows(i) ==
    /\ mutating[i].status = "pending"
    /\ mutating' = [mutating EXCEPT ![i] = Settled("threw")]
    /\ UNCHANGED <<store, now, ret, inFlight, promises, calls, settled,
                   settings, serverProfiles, api>>
    /\ UNCHANGED <<notifierVars, otherVars>>

\* settings:set
SettingsSet(partial) ==
    /\ settings' = setSettings(settings, partial)
    /\ refreshApi(settings')
    /\ UNCHANGED <<now, ret, inFlight, promises, calls, settled, serverProfiles,
                   mutating, otherVars>>

\* settings:test-connection
TestConnection ==
    /\ refreshApi(settings)
    /\ UNCHANGED <<now, ret, inFlight, promises, calls, settled, settings,
                   serverProfiles, mutating, otherVars>>

\* profiles:save
ProfilesSave(profile) ==
    /\ serverProfiles' = saveServerProfile(serverProfiles, profile)
    /\ UNCHANGED <<store, now, ret, inFlight, promises, calls, settled,
                   settings, api, mutating>>
    /\ UNCHANGED <<notifierVars, otherVars>>

\* profiles:load (store.ts loadServerProfile, then refreshApi when found)
ProfilesLoad(name) ==
    /\ IF \E i \in 1..Len(serverProfiles) : serverProfiles[i].name = name
       THEN LET profile == serverProfiles[
                    CHOOSE i \in 1..Len(serverProfiles) :
                        /\ serverProfiles[i].name = name
                        /\ \A h \in 1..(i - 1) : serverProfiles[h].name # name]
            IN /\ settings' = setSettings(settings,
                      [jenkinsUrl |-> profile.url,
                       jenkinsUsername |-> profile.username,
                       jenkinsToken |-> profile.token])
               /\ refreshApi(settings')
       ELSE UNCHANGED <<settings, api, store, notifierVars>>
    /\ UNCHANGED <<now, ret, inFlight, promises, calls, settled, serverProfiles,
                   mutating, otherVars>>

\* d ms pass
Tick(d) ==
    /\ now + d <= MaxNow
    /\ now' = now + d
    /\ UNCHANGED <<store, ret, inFlight, promises, calls, settled, settings,
                   serverProfiles, api, mutating>>
    /\ UNCHANGED <<notifierVars, otherVars>>

---------------------------------------------------------------------------
(* notifier.ts *)

Null == << >>

Anime == <<"_anime">>

\* String.endsWith
EndsWith(s, suffix) ==
    /\ Len(suffix) <= Len(s)
    /\ SubSeq(s, Len(s) - Len(suffix) + 1, Len(s)) = suffix

\* color.replace('_anime', '') : the first occurrence is removed
RECURSIVE replaceAnime(_)
replaceAnime(color) ==
    IF color = << >> THEN << >>
    ELSE IF Head(color) = "_anime" THEN Tail(color)
    ELSE <<Head(color)>> \o replaceAnime(Tail(color))

\* `item.color || 'notbuilt'`
colorOrNotbuilt(color) == IF color = Undefined THEN <<"notbuilt">> ELSE color

\* the inventories client.getAllItems() resolves with
ItemColors == { <<"red">>, <<"blue", "_anime">>, Undefined }

SecondColors == { <<"blue", "_anime">> }

ItemsOf(fullname, colors, builds) ==
    { [fullname |-> fullname, color |-> c, lastBuild |-> b] :
        c \in colors, b \in builds }

Inventories ==
    LET first == { << >> } \cup
            { <<x>> : x \in ItemsOf(<<"a">>, ItemColors, {Undefined, <<1>>, <<2>>}) }
        second == { << >> } \cup
            { <<x>> : x \in ItemsOf(<<"a", "b">>, SecondColors, {<<1>>}) }
    IN { x \o y : x \in first, y \in second }

\* the lists client.getPendingInputActions() resolves with (the ids of the
\* inputs); it resolves with the empty list when its request fails
InputLists == { << >>, <<"i">> }

\* notifier getApi
notifierGetApi(a, s) ==
    IF a # << >> THEN a
    ELSE IF s.jenkinsUrl = "" \/ s.jenkinsUsername = "" \/ s.jenkinsToken = ""
    THEN << >>
    ELSE <<ConfigOf(s)>>

\* variant of buildResultLabel: 'aborted' falls to the default case
buildResultLabelNoAborted(color) ==
    LET base == replaceAnime(color) IN
    IF EndsWith(color, Anime) THEN Null
    ELSE CASE base = <<"red">> -> <<"FAILED">>
           [] base = <<"yellow">> -> <<"UNSTABLE">>
           [] base \in { <<"blue">>, <<"green">> } -> <<"SUCCESS">>
           [] OTHER -> Null

\* buildResultLabel : << >> for null
buildResultLabel(color) ==
    LET base == replaceAnime(color) IN
    IF EndsWith(color, Anime) THEN Null
    ELSE CASE base = <<"red">> -> <<"FAILED">>
           [] base = <<"yellow">> -> <<"UNSTABLE">>
           [] base = <<"aborted">> -> <<"ABORTED">>
           [] base \in { <<"blue">>, <<"green">> } -> <<"SUCCESS">>
           [] OTHER -> Null

\* shortName : the last two segments of a path of two or more segments
shortName(fullname) ==
    LET slashes == {i \in 1..Len(fullname) : fullname[i] = "/"} IN
    IF Cardinality(slashes) < 2 THEN fullname
    ELSE LET last == CHOOSE i \in slashes : \A j \in slashes : j <= i
             before == CHOOSE i \in slashes \ {last} :
                          \A j \in slashes \ {last} : j <= i
         IN SubSeq(fullname, before + 1, Len(fullname))

\* variant of computeGlobalStatus: a running job is looked at before a failed one
computeGlobalStatusRunningFirst(items) ==
    LET base(i) == replaceAnime(colorOrNotbuilt(items[i].color))
        idx == 1..Len(items)
        hasRunning == \E i \in idx : EndsWith(colorOrNotbuilt(items[i].color), Anime)
        hasFailed == \E i \in idx : base(i) = <<"red">>
        hasUnstable == \E i \in idx : base(i) = <<"yellow">>
        hasSuccess == \E i \in idx : base(i) \in { <<"blue">>, <<"green">> }
    IN IF hasRunning THEN "blue"
       ELSE IF hasFailed THEN "red"
       ELSE IF hasUnstable THEN "yellow"
       ELSE IF hasSuccess THEN "green"
       ELSE "gray"

\* computeGlobalStatus
computeGlobalStatus(items) ==
    LET base(i) == replaceAnime(colorOrNotbuilt(items[i].color))
        idx == 1..Len(items)
        hasRunning == \E i \in idx : EndsWith(colorOrNotbuilt(items[i].color), Anime)
        hasFailed == \E i \in idx : base(i) = <<"red">>
        hasUnstable == \E i \in idx : base(i) = <<"yellow">>
        hasSuccess == \E i \in idx : base(i) \in { <<"blue">>, <<"green">> }
    IN IF hasFailed THEN "red"
       ELSE IF hasRunning THEN "blue"
       ELSE IF hasUnstable THEN "yellow"
       ELSE IF hasSuccess THEN "green"
       ELSE "gray"

\* index.ts updateTrayIcon, the callback registered with onBuildStateChange
updateTrayIcon(last, status) == IF status = last THEN last ELSE status

\* `item.lastBuild?.number ?? null`
currentBuildNumOf(item) == item.lastBuild

wasRunning(prev) == EndsWith(prev.color, Anime)

isNowDone(currentColor) == ~EndsWith(currentColor, Anime)

buildChanged(prev, currentBuildNum) ==
    currentBuildNum # Null /\ currentBuildNum # prev.lastBuildNumber

\* variant of the item loop body: a job without recorded state is compared
\* with an empty state instead of being skipped
terminalOfAlways(prev, item) ==
    LET currentColor == colorOrNotbuilt(item.color)
        currentBuildNum == currentBuildNumOf(item)
        before == IF prev = << >>
                  THEN [color |-> << >>, lastBuildNumber |-> Null]
                  ELSE prev[1]
        resultLabel == buildResultLabel(currentColor)
    IN IF /\ \/ wasRunning(before) /\ isNowDone(currentColor)
             \/ buildChanged(before, currentBuildNum) /\ isNowDone(currentColor)
          /\ resultLabel # Null
       THEN {[kind |-> "terminal", fullname |-> item.fullname,
              label |-> resultLabel[1], name |-> shortName(item.fullname),
              number |-> currentBuildNum,
              shown |-> settings.showNotifications,
              beep |-> resultLabel[1] \in {"FAILED", "UNSTABLE"}
                          /\ settings.soundAlerts]}
       ELSE {}

\* the body of the item loop of checkForChanges without its previousStates.set:
\* the showNotification and playFailureSound calls for one item; prev is << >>
\* for a job that has no recorded state; `shown` and `beep` tell whether the
\* preferences let the notification and the sound through
terminalOf(prev, item) ==
    IF prev = << >> THEN {}
    ELSE LET currentColor == colorOrNotbuilt(item.color)
             currentBuildNum == currentBuildNumOf(item)
             resultLabel == buildResultLabel(currentColor)
         IN IF /\ \/ wasRunning(prev[1]) /\ isNowDone(currentColor)
                  \/ buildChanged(prev[1], currentBuildNum) /\ isNowDone(currentColor)
               /\ resultLabel # Null
            THEN {[kind |-> "terminal", fullname |-> item.fullname,
                   label |-> resultLabel[1], name |-> shortName(item.fullname),
                   number |-> currentBuildNum,
                   shown |-> settings.showNotifications,
                   beep |-> resultLabel[1] \in {"FAILED", "UNSTABLE"}
                               /\ settings.soundAlerts]}
            ELSE {}

\* the item loop of checkForChanges : the states and the notifications after it
RECURSIVE diffItems(_, _, _)
diffItems(items, states, out) ==
    IF items = << >> THEN [states |-> states, out |-> out]
    ELSE LET item == Head(items)
             key == item.fullname
             prev == IF key \in DOMAIN states THEN <<states[key]>> ELSE << >>
         IN diffItems(Tail(items),
                Put(states, key, [color |-> colorOrNotbuilt(item.color),
                                  lastBuildNumber |-> currentBuildNumOf(item)]),
                out \cup terminalOf(prev, item))

\* checkPendingInputs : the items it awaits getPendingInputActions for, in
\* order; firstSeen tells whether this cycle recorded the job's first state
RECURSIVE runningItems(_, _)
\* variant of the filter of checkPendingInputs: the color is not looked at
RECURSIVE runningItemsAnyColor(_, _)
runningItemsAnyColor(items, states) ==
    IF items = << >> THEN << >>
    ELSE LET item == Head(items) IN
         IF item.lastBuild # Undefined
         THEN <<[fullname |-> item.fullname, number |-> item.lastBuild[1],
                 firstSeen |-> item.fullname \notin DOMAIN states]>>
                 \o runningItemsAnyColor(Tail(items), states)
         ELSE runningItemsAnyColor(Tail(items), states)

runningItems(items, states) ==
    IF items = << >> THEN << >>
    ELSE LET item == Head(items) IN
         IF EndsWith(item.color, Anime) /\ item.lastBuild # Undefined
         THEN <<[fullname |-> item.fullname, number |-> item.lastBuild[1],
                 firstSeen |-> item.fullname \notin DOMAIN states]>>
                 \o runningItems(Tail(items), states)
         ELSE runningItems(Tail(items), states)

\* `${item.fullname}:${item.lastBuild.number}:${input.id}`
inputKey(fullname, number, id) ==
    fullname \o <<":">> \o NumToStr(number) \o <<":">> \o <<id>>

\* variant of the notified-input test: no key is ever found
neverNotified(notified, key) == FALSE

\* `notifiedInputs.has(inputKey)`
hasNotified(notified, key) == key \in notified

\* the input loop of checkPendingInputs for one response
RECURSIVE notifyInputs(_, _, _, _)
notifyInputs(inputs, item, notified, out) ==
    IF inputs = << >> THEN [notified |-> notified, out |-> out]
    ELSE LET key == inputKey(item.fullname, item.number, Head(inputs)) IN
         IF ~hasNotified(notified, key)
         THEN notifyInputs(Tail(inputs), item, notified \cup {key},
                  out \cup {[kind |-> "input", fullname |-> item.fullname,
                             label |-> Head(inputs),
                             name |-> shortName(item.fullname),
                             number |-> <<item.number>>,
                             shown |-> settings.showNotifications,
                             beep |-> FALSE]})
         ELSE notifyInputs(Tail(inputs), item, notified, out)

RemoveAt(seq, i) == SubSeq(seq, 1, i - 1) \o SubSeq(seq, i + 1, Len(seq))

\* a timer of initNotifier fires while fewer than limit cycles are under
\* way: checkForChanges up to `await getAllItems()`; snapshot is the
\* inventory the server has fixed for its answer, << >> when that is open
checkForChanges(limit, snapshot) ==
    /\ pollTimer
    /\ Len(cycles) < limit
    /\ notifierApi' = notifierGetApi(notifierApi, settings)
    /\ cycles' = IF notifierApi' = << >> THEN cycles
                 ELSE Append(cycles, [pc |-> "items", running |-> << >>,
                                      server |-> notifierApi'[1].url,
                                      snapshot |-> snapshot])
    /\ emitNothing
    /\ lastStep' = "tick"
    /\ UNCHANGED <<previousStates, notifiedInputs, seenInputs, lastTrayStatus,
                   pollTimer, stateOrigin, inputOrigin>>
    /\ UNCHANGED <<cacheVars, ret, coordVars, otherVars>>

CheckForChanges == checkForChanges(MaxCycles, << >>)

\* getAllItems of cycle c resolves: the status callbacks, the item loop, and
\* checkPendingInputs up to its first `await getPendingInputActions()`
ItemsArrive(c, items) ==
    /\ cycles[c].pc = "items"
    /\ delivered' = <<computeGlobalStatus(items)>>
    /\ lastTrayStatus' = updateTrayIcon(lastTrayStatus, delivered'[1])
    /\ LET after == diffItems(items, previousStates, {}) IN
       /\ previousStates' = after.states
       /\ emitted' = after.out
    /\ stateOrigin' = [f \in DOMAIN previousStates' |->
                          IF \E j \in 1..Len(items) : items[j].fullname = f
                          THEN cycles[c].server ELSE stateOrigin[f]]
    /\ lastStep' = "items"
    /\ firstSeen' = {items[j] : j \in {i \in 1..Len(items) :
                          items[i].fullname \notin DOMAIN previousStates}}
    /\ observed' = {}
    /\ notifierApi' = notifierGetApi(notifierApi, settings)
    /\ LET running == runningItems(items, previousStates) IN
       cycles' = IF notifierApi' = << >> \/ running = << >>
                 THEN RemoveAt(cycles, c)
                 ELSE [cycles EXCEPT ![c] = [pc |-> "inputs", running |-> running,
                                             server |-> cycles[c].server]]
    /\ UNCHANGED <<notifiedInputs, seenInputs, pollTimer, inputOrigin>>
    /\ UNCHANGED <<cacheVars, ret, coordVars, otherVars>>

\* variant of the catch of checkForChanges: the failure stops the polling
\* timer and forgets the recorded states
ItemsFailStops(c) ==
    /\ cycles[c].pc = "items"
    /\ cycles' = RemoveAt(cycles, c)
    /\ emitNothing
    /\ lastStep' = "failed"
    /\ pollTimer' = FALSE
    /\ previousStates' = << >>
    /\ stateOrigin' = << >>
    /\ UNCHANGED <<notifierApi, notifiedInputs, seenInputs, lastTrayStatus,
                   inputOrigin>>
    /\ UNCHANGED <<cacheVars, ret, coordVars, otherVars>>

\* getAllItems of cycle c rejects: the catch of checkForChanges
ItemsFail(c) ==
    /\ cycles[c].pc = "items"
    /\ cycles' = RemoveAt(cycles, c)
    /\ emitNothing
    /\ lastStep' = "failed"
    /\ UNCHANGED <<notifierApi, previousStates, notifiedInputs, seenInputs,
                   lastTrayStatus, pollTimer, stateOrigin, inputOrigin>>
    /\ UNCHANGED <<cacheVars, ret, coordVars, otherVars>>

\* getPendingInputActions of cycle c resolves for its first running item: the
\* input loop, then the next await or the end of the cycle
InputsArrive(c, inputs) ==
    /\ cycles[c].pc = "inputs"
    /\ LET item == Head(cycles[c].running)
           after == notifyInputs(inputs, item, notifiedInputs, {})
       IN /\ notifiedInputs' = after.notified
          /\ emitted' = after.out
          /\ observed' = {inputKey(item.fullname, item.number, inputs[j]) :
                              j \in 1..Len(inputs)}
          /\ seenInputs' = seenInputs \cup observed'
          /\ inputOrigin' = [k \in notifiedInputs' |->
                                IF k \in notifiedInputs THEN inputOrigin[k]
                                ELSE cycles[c].server]
    /\ firstSeen' = {}
    /\ delivered' = << >>
    /\ lastStep' = "inputs"
    /\ cycles' = IF Tail(cycles[c].running) = << >>
                 THEN RemoveAt(cycles, c)
                 ELSE [cycles EXCEPT ![c].running = Tail(@)]
    /\ UNCHANGED <<notifierApi, previousStates, lastTrayStatus, pollTimer,
                   stateOrigin>>
    /\ UNCHANGED <<cacheVars, ret, coordVars, otherVars>>

---------------------------------------------------------------------------
(* the remote server and the user *)

\* the inventories the server answers with as build 1 of job a runs and fails
RemoteHistory ==
    << << [fullname |-> <<"a">>, color |-> <<"blue", "_anime">>,
           lastBuild |-> <<1>>] >>,
       << [fullname |-> <<"a">>, color |-> <<"red">>, lastBuild |-> <<1>>] >> >>

\* the build goes on
ServerAdvance ==
    /\ outside.at < Len(RemoteHistory)
    /\ outside' = [outside EXCEPT !.at = @ + 1]
    /\ UNCHANGED <<cacheVars, ret, coordVars, notifierVars, rendererVars,
                   pureVars, stageVars>>

\* the build results among the notifications showNotification displayed
ResultsShown(out) ==
    {[fullname |-> n.fullname, number |-> n.number] :
        n \in {m \in out : m.kind = "terminal" /\ m.shown}}

\* the user takes note of the build results just displayed
UserSees ==
    /\ ~(ResultsShown(emitted) \subseteq outside.seen)
    /\ outside' = [outside EXCEPT !.seen = @ \cup ResultsShown(emitted)]
    /\ UNCHANGED <<cacheVars, ret, coordVars, notifierVars, rendererVars,
                   pureVars, stageVars>>

---------------------------------------------------------------------------
(* computeGlobalStatus and the item loop called on their own *)

\* the colors of the remote API: eight base colors, each plain or with the
\* running suffix, and the unset color
BaseColors == { <<"red">>, <<"yellow">>, <<"blue">>, <<"green">>, <<"aborted">>,
                <<"disabled">>, <<"notbuilt">>, <<"grey">> }

StatusColors == BaseColors \cup {b \o Anime : b \in BaseColors} \cup {Undefined}

Letters == <<"a", "b", "c", "d">>

\* the fullname of the i-th job of an inventory
NameOf(i) == SubSeq(Letters, 1, i)

\* the inventories of at most MaxItems jobs, of every color
StatusInventories ==
    UNION { { [i \in 1..n |-> [fullname |-> NameOf(i), color |-> colors[i],
                               lastBuild |-> <<1>>]] :
                colors \in [1..n -> StatusColors] } : n \in 0..MaxItems }

\* the states previousStates can hold for a job, and the items it is diffed with
PrevStates ==
    { [color |-> c, lastBuildNumber |-> b] :
        c \in StatusColors \ {Undefined}, b \in {Null, <<1>>, <<2>>} }

DiffedItems == ItemsOf(<<"a">>, StatusColors, {Undefined, <<1>>, <<2>>})

\* computeGlobalStatus(items), called once
ComputeGlobalStatus(items) ==
    /\ arg = << >>
    /\ arg' = [op |-> "computeGlobalStatus", items |-> items]
    /\ result' = computeGlobalStatus(items)
    /\ UNCHANGED <<cacheVars, ret, coordVars, notifierVars, rendererVars,
                   stageVars, outsideVars>>

\* one pass of the item loop of checkForChanges over a job recorded as prev,
\* run once
DiffItem(prev, item) ==
    /\ arg = << >>
    /\ arg' = [op |-> "diffItems", prev |-> prev, item |-> item]
    /\ result' = diffItems(<<item>>, Put(<< >>, item.fullname, prev), {})
    /\ UNCHANGED <<cacheVars, ret, coordVars, notifierVars, rendererVars,
                   stageVars, outsideVars>>

---------------------------------------------------------------------------
(* useJenkins.ts : usePolling in one mounted component *)

\* the state of the main process, which the hook does not touch
mainVars == <<store, ret, coordVars, notifierVars, pureVars, stageVars,
              outsideVars>>

\* the intervals the callers pass: useRunningBuilds and useQueue 10000,
\* useNodes 15000, and a refresh interval of 0 that switches polling off
Intervals == {0, 10000, 15000}

PollDelays == {5000}

\* `setInterval(refresh, intervalMs)` at time t; `by` names the step whose
\* run of the effect set the timer
intervalTimer(t, ms, by) == [due |-> t + ms, interval |-> ms, by |-> by]

\* variant of the cleanup of the effect: the timer is left set
clearNothing(tm, cl) == tm

\* the cleanup the effect returned, `() => clearInterval(timer)`; cl is << >>
\* when the latest run of the effect returned early
clearInterval(tm, cl) == IF cl = << >> THEN tm ELSE Remove(tm, {cl[1]})

\* variant of the two early returns of the effect: appVisible is not looked at
effectPollsHidden(en, ms, vis) == en /\ ms > 0

\* the effect gets past `if (!enabled || intervalMs <= 0) return` and
\* `if (!appVisible) return`
effectPolls(en, ms, vis) == en /\ ms > 0 /\ vis

\* `setLoading((prev) => (data === null ? true : prev))`
loadingOnRefresh(d, prev) == IF d = << >> THEN TRUE ELSE prev

\* the identity of the object a fetch resolves with, never that of `data`
freshObject(d) == IF d = <<1>> THEN <<2>> ELSE <<1>>

\* the effect of usePolling runs again because one of its dependencies
\* [intervalMs, enabled, refresh, appVisible] changed (or runs first, at the
\* mount): the cleanup of the previous run, then the body.  d, ld are the
\* data and loading states of the render, left is the number of refresh
\* calls still awaiting their fetch, by names the step.
runEffect(en, ms, vis, d, ld, left, by) ==
    LET cleared == clearInterval(timers, cleanup)
        id == CHOOSE i \in 1..(Cardinality(DOMAIN cleared) + 1) :
                 i \notin DOMAIN cleared
    IN IF effectPolls(en, ms, vis)
       THEN /\ started < MaxFetches
            /\ started' = started + 1
            /\ pending' = left + 1
            /\ loading' = loadingOnRefresh(d, ld)
            /\ timers' = Put(cleared, id, intervalTimer(now, ms, by))
            /\ cleanup' = <<id>>
       ELSE /\ started' = started
            /\ pending' = left
            /\ loading' = ld
            /\ timers' = cleared
            /\ cleanup' = << >>

\* the component is mounted: the first render and the first run of the effect
Mount(ms, en) ==
    /\ mounted = "no"
    /\ mounted' = "yes"
    /\ intervalMs' = ms
    /\ enabled' = en
    /\ hookData' = << >>
    /\ error' = << >>
    /\ pollStep' = "mount"
    /\ runEffect(en, ms, visible, << >>, TRUE, pending, pollStep')
    /\ UNCHANGED <<visible, now, mainVars>>

\* the component renders with another interval or another enabled flag
SetProps(ms, en) ==
    /\ mounted = "yes"
    /\ <<ms, en>> # <<intervalMs, enabled>>
    /\ intervalMs' = ms
    /\ enabled' = en
    /\ pollStep' = "props"
    /\ runEffect(en, ms, visible, hookData, loading, pending, pollStep')
    /\ UNCHANGED <<visible, mounted, hookData, error, now, mainVars>>

\* `update(v)` of _initVisibility, called on app:visibility or visibilitychange
\* once the first useAppVisible call has registered it
VisibilityChange(v) ==
    /\ mounted # "no"
    /\ visible # v
    /\ visible' = v
    /\ pollStep' = IF v THEN "visible" ELSE "hidden"
    /\ IF mounted = "yes"
       THEN runEffect(enabled, intervalMs, v, hookData, loading, pending,
                      pollStep')
       ELSE UNCHANGED <<started, pending, loading, timers, cleanup>>
    /\ UNCHANGED <<mounted, intervalMs, enabled, hookData, error, now, mainVars>>

\* the interval timer id fires: refresh up to `await fetchRef.current()`
TimerFire(id) ==
    /\ id \in DOMAIN timers
    /\ timers[id].due = now
    /\ started < MaxFetches
    /\ started' = started + 1
    /\ pending' = pending + 1
    /\ loading' = loadingOnRefresh(hookData, loading)
    /\ timers' = [timers EXCEPT ![id].due = @ + timers[id].interval]
    /\ pollStep' = "tick"
    /\ UNCHANGED <<visible, mounted, intervalMs, enabled, hookData, error,
                   cleanup, now, mainVars>>

\* the component calls the refresh function the hook returned
ExplicitRefresh ==
    /\ mounted = "yes"
    /\ started < MaxFetches
    /\ started' = started + 1
    /\ pending' = pending + 1
    /\ loading' = loadingOnRefresh(hookData, loading)
    /\ pollStep' = "refresh"
    /\ UNCHANGED <<visible, mounted, intervalMs, enabled, hookData, error,
                   timers, cleanup, now, mainVars>>

\* the fetch of a refresh call resolves: setData, setError(null),
\* setLoading(false), and the render that follows; with a new `data` the
\* useCallback gives a new `refresh`, which is a dependency of the effect.
\* fresh is FALSE when the result is identical to `data` (Object.is).
FetchSucceeds(fresh) ==
    /\ pending > 0
    /\ IF mounted = "yes"
       THEN /\ hookData' = IF fresh THEN freshObject(hookData) ELSE hookData
            /\ error' = << >>
            /\ IF hookData' # hookData
               THEN runEffect(enabled, intervalMs, visible, hookData', FALSE,
                              pending - 1, "succeeded")
               ELSE /\ pending' = pending - 1
                    /\ loading' = FALSE
                    /\ UNCHANGED <<started, timers, cleanup>>
       ELSE /\ pending' = pending - 1
            /\ UNCHANGED <<hookData, error, loading, started, timers, cleanup>>
    /\ pollStep' = "succeeded"
    /\ UNCHANGED <<visible, mounted, intervalMs, enabled, now, mainVars>>

\* the fetch of a refresh call rejects: setError, setLoading(false)
FetchFails ==
    /\ pending > 0
    /\ pending' = pending - 1
    /\ IF mounted = "yes"
       THEN error' = <<"error">> /\ loading' = FALSE
       ELSE UNCHANGED <<error, loading>>
    /\ pollStep' = "failed"
    /\ UNCHANGED <<visible, mounted, intervalMs, enabled, hookData, started,
                   timers, cleanup, now, mainVars>>

\* the component is unmounted: the cleanup of the effect runs
Unmount ==
    /\ mounted = "yes"
    /\ mounted' = "gone"
    /\ timers' = clearInterval(timers, cleanup)
    /\ cleanup' = << >>
    /\ pollStep' = "unmount"
    /\ UNCHANGED <<visible, intervalMs, enabled, hookData, loading, error,
                   pending, started, now, mainVars>>

\* d ms pass; a timer that is due fires before more time passes
PollTick(d) ==
    /\ now + d <= MaxNow
    /\ \A id \in DOMAIN timers : now + d <= timers[id].due
    /\ now' = now + d
    /\ pollStep' = "time"
    /\ UNCHANGED <<visible, mounted, intervalMs, enabled, hookData, loading,
                   error, timers, cleanup, pending, started, mainVars>>

---------------------------------------------------------------------------
(* direct use of the exported apiCache singleton *)

CacheData == { [server |-> s, stale |-> FALSE] : s \in {"A", "B"} }

CacheTTLs == { CacheTTL.QUEUE, CacheTTL.BUILD_HISTORY }

CacheKeys == {QueueAllKey} \cup {BuildsKey(f, l) : f \in Fullnames, l \in Limits}

InvalidateInputs ==
    CacheKeys \cup {<<"builds:">> \o f : f \in Fullnames} \cup {<<"queue:">>}

CacheSet(key, data, ttl) ==
    /\ Cardinality(DOMAIN store \cup {key}) <= MaxEntries
    /\ store' = set(store, key, data, ttl, now)
    /\ now' = now
    /\ ret' = [op |-> "set", key |-> key, data |-> << >>, at |-> now]
    /\ UNCHANGED <<coordVars, notifierVars, otherVars>>

CacheGet(key) ==
    /\ store' = get(store, key, now).store
    /\ now' = now
    /\ ret' = [op |-> "get", key |-> key, data |-> get(store, key, now).data,
               at |-> now]
    /\ UNCHANGED <<coordVars, notifierVars, otherVars>>

CacheTouch(key) ==
    /\ store' = touch(store, key, now)
    /\ now' = now
    /\ ret' = [op |-> "touch", key |-> key, data |-> << >>, at |-> now]
    /\ UNCHANGED <<coordVars, notifierVars, otherVars>>

CacheInvalidate(keyOrPrefix) ==
    /\ store' = invalidate(store, keyOrPrefix)
    /\ now' = now
    /\ ret' = [op |-> "invalidate", key |-> keyOrPrefix, data |-> << >>,
               at |-> now]
    /\ UNCHANGED <<coordVars, notifierVars, otherVars>>

CacheClear ==
    /\ store' = clear(store)
    /\ now' = now
    /\ ret' = [op |-> "clear", key |-> << >>, data |-> << >>, at |-> now]
    /\ UNCHANGED <<coordVars, notifierVars, otherVars>>

---------------------------------------------------------------------------
(* specifications *)

\* the detector after initNotifier, the hook before its component is mounted
InitOther ==
    /\ pollTimer = TRUE
    /\ stateOrigin = << >> /\ inputOrigin = << >>
    /\ delivered = << >> /\ lastStep = ""
    /\ visible = TRUE /\ mounted = "no"
    /\ intervalMs = 0 /\ enabled = FALSE
    /\ hookData = << >> /\ loading = TRUE /\ error = << >>
    /\ timers = << >> /\ cleanup = << >>
    /\ pending = 0 /\ started = 0 /\ pollStep = ""
    /\ arg = << >> /\ result = << >>
    /\ stageFetches = << >>
    /\ outside = [at |-> 1, seen |-> {}]

Init ==
    /\ InitOther
    /\ store = << >>
    /\ now = 0
    /\ inFlight = << >>
    /\ promises = << >>
    /\ calls = << >>
    /\ settled = << >>
    /\ ret = [op |-> "", key |-> << >>, data |-> << >>, at |-> 0]
    /\ settings = Defaults
    /\ serverProfiles = << >>
    /\ api = << >>
    /\ mutating = << >>
    /\ notifierApi = << >>
    /\ previousStates = << >>
    /\ notifiedInputs = {}
    /\ cycles = << >>
    /\ emitted = {}
    /\ firstSeen = {}
    /\ observed = {}
    /\ seenInputs = {}
    /\ lastTrayStatus = ""

NextCache ==
    \/ \E key \in CacheKeys, data \in CacheData, ttl \in CacheTTLs :
            CacheSet(key, data, ttl)
    \/ \E key \in CacheKeys : CacheGet(key)
    \/ \E key \in CacheKeys : CacheTouch(key)
    \/ \E keyOrPrefix \in InvalidateInputs : CacheInvalidate(keyOrPrefix)
    \/ CacheClear
    \/ \E d \in CacheDelays : Tick(d)

SpecCache == Init /\ [][NextCache]_vars

\* a start on the settings an earlier run persisted, or on the defaults
InitPersisted ==
    /\ InitOther
    /\ settings \in {Defaults, Configured}
    /\ store = << >> /\ now = 0 /\ inFlight = << >> /\ promises = << >>
    /\ calls = << >> /\ settled = << >>
    /\ ret = [op |-> "", key |-> << >>, data |-> << >>, at |-> 0]
    /\ serverProfiles = << >> /\ api = << >> /\ mutating = << >>
    /\ notifierApi = << >> /\ previousStates = << >> /\ notifiedInputs = {}
    /\ cycles = << >> /\ emitted = {} /\ seenInputs = {}
    /\ firstSeen = {} /\ observed = {}
    /\ lastTrayStatus = ""

NextCoord ==
    \/ GetAllItems
    \/ GetBuildHistory
    \/ GetRunningBuilds
    \/ GetQueueItems
    \/ \E p \in DOMAIN promises : FetchResolve(p)
    \/ \E p \in DOMAIN promises : FetchReject(p)
    \/ BuildItem
    \/ StopBuild
    \/ CancelQueueItem
    \/ SubmitInput
    \/ AbortInput
    \/ \E i \in 1..Len(mutating) : MutationReturns(i)
    \/ \E i \in 1..Len(mutating) : MutationThrows(i)
    \/ TestConnection
    \/ \E d \in CoordDelays : Tick(d)

SpecCoord == InitPersisted /\ [][NextCoord]_vars

NextReconfig ==
    \/ GetAllItems
    \/ GetBuildHistory
    \/ GetRunningBuilds
    \/ GetQueueItems
    \/ \E p \in DOMAIN promises : FetchResolve(p)
    \/ \E p \in DOMAIN promises : FetchReject(p)
    \/ \E partial \in ConfigInputs : SettingsSet(partial)
    \/ \E partial \in PrefInputs : SettingsSet(partial)
    \/ TestConnection
    \/ \E profile \in ProfileInputs : ProfilesSave(profile)
    \/ \E name \in {"p"} : ProfilesLoad(name)
    \/ \E d \in CoordDelays : Tick(d)

SpecReconfig == InitPersisted /\ [][NextReconfig]_vars

\* the stage lists of one build, requested again and again
NextStageTTL ==
    \/ \E fullname \in {<<"a">>}, number \in {Undefined} :
            GetStages(fullname, number)
    \/ \E i \in 1..Len(stageFetches), stages \in StageLists :
            StagesArrive(i, stages)
    \/ \E d \in CoordDelays : Tick(d)

SpecStageTTL == InitPersisted /\ [][NextStageTTL]_vars

\* a stage list of a running build and one of a finished build
SomeStageLists == {<<"IN_PROGRESS">>, <<"SUCCESS">>}

\* the stage-list handler next to the handlers that invalidate its keys
NextStages ==
    \/ \E fullname \in Fullnames, number \in {Undefined} :
            GetStages(fullname, number)
    \/ \E i \in 1..Len(stageFetches), stages \in SomeStageLists :
            StagesArrive(i, stages)
    \/ GetAllItems
    \/ GetBuildHistory
    \/ GetRunningBuilds
    \/ GetQueueItems
    \/ \E p \in DOMAIN promises : FetchResolve(p)
    \/ BuildItem
    \/ StopBuild
    \/ CancelQueueItem
    \/ SubmitInput
    \/ AbortInput
    \/ \E i \in 1..Len(mutating) : MutationReturns(i)
    \/ \E i \in 1..Len(mutating) : MutationThrows(i)

SpecStages == InitPersisted /\ [][NextStages]_vars

\* cachedFetch next to the lookups, invalidations and clears of the cache
NextPending ==
    \/ GetAllItems
    \/ GetBuildHistory
    \/ GetRunningBuilds
    \/ GetQueueItems
    \/ \E p \in DOMAIN promises : FetchResolve(p)
    \/ \E p \in DOMAIN promises : FetchReject(p)
    \/ BuildItem
    \/ CancelQueueItem
    \/ \E i \in 1..Len(mutating) : MutationReturns(i)
    \/ TestConnection

SpecPending == InitPersisted /\ [][NextPending]_vars

\* the handlers while the credentials are blanked through settings:set
NextUnconfigured ==
    \/ \E fullname \in {<<"a">>}, number \in {Undefined} :
            GetStages(fullname, number)
    \/ GetAllItems
    \/ GetBuildHistory
    \/ GetRunningBuilds
    \/ GetQueueItems
    \/ \E p \in DOMAIN promises : FetchResolve(p)
    \/ BuildItem
    \/ StopBuild
    \/ CancelQueueItem
    \/ SubmitInput
    \/ AbortInput
    \/ \E partial \in ClearInputs : SettingsSet(partial)

SpecUnconfigured == InitPersisted /\ [][NextUnconfigured]_vars

\* a start with notifications muted and sound alerts on is possible too
Muted == [Configured EXCEPT !.showNotifications = FALSE, !.soundAlerts = TRUE]

InitNotifier ==
    /\ InitOther
    /\ settings \in {Defaults, Configured, Muted}
    /\ store = << >> /\ now = 0 /\ inFlight = << >> /\ promises = << >>
    /\ calls = << >> /\ settled = << >>
    /\ ret = [op |-> "", key |-> << >>, data |-> << >>, at |-> 0]
    /\ serverProfiles = << >> /\ api = << >> /\ mutating = << >>
    /\ notifierApi = << >> /\ previousStates = << >> /\ notifiedInputs = {}
    /\ cycles = << >> /\ emitted = {} /\ seenInputs = {}
    /\ firstSeen = {} /\ observed = {}
    /\ lastTrayStatus = ""

NextNotifier ==
    \/ CheckForChanges
    \/ \E c \in 1..Len(cycles), items \in Inventories : ItemsArrive(c, items)
    \/ \E c \in 1..Len(cycles) : ItemsFail(c)
    \/ \E c \in 1..Len(cycles), inputs \in InputLists : InputsArrive(c, inputs)
    \/ TestConnection

SpecNotifier == InitNotifier /\ [][NextNotifier]_vars

\* the detector cycles whose requests all succeed
NextCycle ==
    \/ CheckForChanges
    \/ \E c \in 1..Len(cycles), items \in Inventories : ItemsArrive(c, items)
    \/ \E c \in 1..Len(cycles), inputs \in InputLists : InputsArrive(c, inputs)

SpecCycle == InitNotifier /\ [][NextCycle]_vars

\* detector cycles that overlap: the timers fire while inventories are
\* awaited, and the answers arrive in any order
NextOverlap ==
    \/ checkForChanges(MaxOverlap, RemoteHistory[outside.at])
    \/ \E c \in 1..Len(cycles) :
            /\ cycles[c].pc = "items"
            /\ ItemsArrive(c, cycles[c].snapshot)
    \/ \E c \in 1..Len(cycles), inputs \in InputLists : InputsArrive(c, inputs)
    \/ ServerAdvance
    \/ UserSees

SpecOverlap == InitNotifier /\ [][NextOverlap]_vars

NextPolling ==
    \/ \E ms \in Intervals, en \in BOOLEAN : Mount(ms, en)
    \/ \E ms \in Intervals, en \in BOOLEAN : SetProps(ms, en)
    \/ \E v \in BOOLEAN : VisibilityChange(v)
    \/ \E id \in DOMAIN timers : TimerFire(id)
    \/ ExplicitRefresh
    \/ \E fresh \in BOOLEAN : FetchSucceeds(fresh)
    \/ FetchFails
    \/ Unmount
    \/ \E d \in PollDelays : PollTick(d)

SpecPolling == Init /\ [][NextPolling]_vars

NextStatus ==
    \/ \E items \in StatusInventories : ComputeGlobalStatus(items)
    \/ \E prev \in PrevStates, item \in DiffedItems : DiffItem(prev, item)

SpecStatus == InitNotifier /\ [][NextStatus]_vars

\* the detector and the cached handlers together with the handlers that
\* reconfigure the server
ReconfigInventories ==
    { items \in Inventories :
        \A j \in 1..Len(items) :
            /\ items[j].fullname = <<"a">>
            /\ items[j].lastBuild = <<1>>
            /\ items[j].color # Undefined }

NextDetectorReconfig ==
    \/ CheckForChanges
    \/ \E c \in 1..Len(cycles), items \in ReconfigInventories :
            ItemsArrive(c, items)
    \/ \E c \in 1..Len(cycles) : ItemsFail(c)
    \/ \E c \in 1..Len(cycles), inputs \in InputLists : InputsArrive(c, inputs)
    \/ GetAllItems
    \/ \E p \in DOMAIN promises : FetchResolve(p)
    \/ \E partial \in ConfigInputs : SettingsSet(partial)
    \/ TestConnection
    \/ \E profile \in ProfileInputs : ProfilesSave(profile)
    \/ \E name \in {"p"} : ProfilesLoad(name)

SpecDetectorReconfig == InitNotifier /\ [][NextDetectorReconfig]_vars

\* the detector and a cached handler next to the settings writes that leave
\* the credentials alone and to the connection test
NextPreferences ==
    \/ CheckForChanges
    \/ \E c \in 1..Len(cycles), items \in ReconfigInventories :
            ItemsArrive(c, items)
    \/ \E c \in 1..Len(cycles), inputs \in InputLists : InputsArrive(c, inputs)
    \/ GetAllItems
    \/ \E p \in DOMAIN promises : FetchResolve(p)
    \/ \E partial \in PrefInputs : SettingsSet(partial)
    \/ TestConnection

SpecPreferences == InitNotifier /\ [][NextPreferences]_vars

---------------------------------------------------------------------------
(* claims *)

HandlerTTLs == {CacheTTL.ITEMS, CacheTTL.BUILD_HISTORY, CacheTTL.NODES, CacheTTL.QUEUE}

\* C1: at every instant there is at most one fetcher invocation that has
\* started and not yet settled per cache key served by cachedFetch.
C1_AtMostOneOutstanding ==
    \A p, q \in DOMAIN promises :
        promises[p].key = promises[q].key => p = q

\* two callers wait on the one outstanding fetch of a key
C1_Witness ==
    \E p \in DOMAIN promises :
        Cardinality({j \in 1..Len(calls) : calls[j] = p}) >= 2

\* C2: a cachedFetch call for a key that has no unexpired cached value and
\* whose fetch is still outstanding invokes no fetcher: it gets the promise
\* of the outstanding fetch, so all such callers settle with its outcome.
C2_DedupShared ==
    [][\A k \in FetchKeys : \A p \in DOMAIN promises :
         ( /\ Len(calls') = Len(calls) + 1
           /\ promises[p].key = k
           /\ get(store, k, now).data = << >>
           /\ \E ttl \in HandlerTTLs : CachedHandler(k, ttl) )
         => ( /\ promises' = promises
              /\ calls' = Append(calls, p) )]_vars

\* two callers shared one promise, which has settled
C2_Witness ==
    /\ Len(calls) >= 2
    /\ calls[1] = calls[2]
    /\ calls[1] \in DOMAIN settled

\* C3 (as claimed): no cache lookup, and so no cachedFetch, returns data that
\* was fetched from a server other than the one now configured.
C3_NoPreviousServerData ==
    \A k \in FetchKeys :
        get(store, k, now).data # << >>
            => get(store, k, now).data[1].server = settings.jenkinsUrl

\* C4 (as claimed): no cache lookup returns data of a key named by a returned
\* mutating operation whose fetch started before that operation's remote
\* call completed.
C4_NoStaleDataAfterMutation ==
    \A k \in FetchKeys :
        get(store, k, now).data # << >> => ~get(store, k, now).data[1].stale

\* C5: when a fetcher rejects, its promise is settled as rejected for all the
\* callers that share it, the key leaves the in-flight map and the cache has
\* no entry for the key, so that the next cachedFetch invokes the fetcher.
C5_RejectCleansUp ==
    [][\A p \in DOMAIN promises :
         FetchReject(p)
         => LET k == promises[p].key IN
            /\ settled'[p] = "rejected"
            /\ k \notin DOMAIN inFlight'
            /\ k \notin DOMAIN store'
            /\ ~HasExisting(inFlight', k)
            /\ get(store', k, now').data = << >>]_vars

\* a fetch shared by two callers was rejected and nothing is cached or in flight
C5_Witness ==
    /\ Len(calls) >= 2
    /\ calls[1] = calls[2]
    /\ calls[1] \in DOMAIN settled
    /\ settled[calls[1]] = "rejected"
    /\ DOMAIN store = {}
    /\ DOMAIN inFlight = {}

\* C6 (as claimed): get returns the stored value at elapsed < ttl and absent,
\* removing the entry, at elapsed >= ttl.
C6_ExpiresAtTTL ==
    \A k \in DOMAIN store :
        LET elapsed == now - store[k].timestamp
            g == get(store, k, now) IN
        /\ elapsed < store[k].ttl => g.data = <<store[k].data>> /\ g.store = store
        /\ elapsed >= store[k].ttl => g.data = << >> /\ k \notin DOMAIN g.store

\* C6 (amended): get returns the stored value at elapsed <= ttl, leaving the
\* entry, and absent at elapsed > ttl, removing the entry and no other.
C6_ExpiresAfterTTL ==
    \A k \in DOMAIN store :
        LET elapsed == now - store[k].timestamp
            g == get(store, k, now) IN
        /\ elapsed <= store[k].ttl => g.data = <<store[k].data>> /\ g.store = store
        /\ elapsed > store[k].ttl =>
              g.data = << >> /\ g.store = Remove(store, {k})

\* a get at elapsed = ttl returned the stored value and left the entry
C6_Witness ==
    /\ ret.op = "get"
    /\ ret.at = now
    /\ ret.key \in DOMAIN store
    /\ now - store[ret.key].timestamp = store[ret.key].ttl
    /\ ret.data = <<store[ret.key].data>>

\* C7: invalidate(s) deletes exactly s when s is a stored key, and otherwise
\* exactly the stored keys that start with s; the other entries are unchanged.
C7_InvalidateExactOrPrefix ==
    \A s \in InvalidateInputs :
        LET after == invalidate(store, s) IN
        /\ s \in DOMAIN store => DOMAIN after = DOMAIN store \ {s}
        /\ s \notin DOMAIN store =>
              DOMAIN after = {k \in DOMAIN store : ~StartsWith(k, s)}
        /\ \A k \in DOMAIN after : after[k] = store[k]

\* invalidate of a stored key removed it and kept a longer key it prefixes
C7_Witness ==
    /\ ret.op = "invalidate"
    /\ ret.at = now
    /\ ret.key = BuildsKey(<<"a">>, <<2>>)
    /\ ret.key \notin DOMAIN store
    /\ BuildsKey(<<"a">>, Undefined) \in DOMAIN store

\* the last-build number cur is greater than the recorded one (a first build
\* counts as an increase)
Increased(recorded, cur) ==
    cur # Null /\ (recorded = Null \/ cur[1] > recorded[1])

TerminalFor(out, fullname) ==
    {n \in out : n.kind = "terminal" /\ n.fullname = fullname}

\* the notifications of a step that the showNotifications preference let through
Shown(out) == {n \in out : n.shown}

\* C8 (as claimed): for a job that has recorded state, a detector cycle emits
\* a terminal notification only if the new color is non-running and either
\* the recorded color is running or the last-build number increased, and it
\* does emit one in that case when the new base color has a label; a number
\* that decreased or is unchanged, with a non-running recorded color, emits
\* nothing.  Only a notification that is shown is held against the first half.
C8_TerminalIffFinished ==
    [][\A c \in 1..Len(cycles) : \A items \in Inventories :
         ItemsArrive(c, items)
         => \A j \in 1..Len(items) :
              items[j].fullname \in DOMAIN previousStates
              => LET recorded == previousStates[items[j].fullname]
                     color == colorOrNotbuilt(items[j].color)
                 IN /\ TerminalFor(Shown(emitted'), items[j].fullname) # {}
                       => /\ ~EndsWith(color, Anime)
                          /\ \/ EndsWith(recorded.color, Anime)
                             \/ Increased(recorded.lastBuildNumber,
                                          items[j].lastBuild)
                    /\ ( /\ ~EndsWith(color, Anime)
                         /\ buildResultLabel(color) # Null
                         /\ \/ EndsWith(recorded.color, Anime)
                            \/ Increased(recorded.lastBuildNumber,
                                         items[j].lastBuild) )
                       => TerminalFor(emitted', items[j].fullname) # {}]_vars

C10_InputNotifiedOnce ==
    [][\A c \in 1..Len(cycles) : \A inputs \in InputLists :
         InputsArrive(c, inputs)
         => LET item == Head(cycles[c].running) IN
            \A j \in 1..Len(inputs) :
                LET k == inputKey(item.fullname, item.number, inputs[j])
                    sent == {n \in emitted' :
                               /\ n.kind = "input"
                               /\ n.fullname = item.fullname
                               /\ n.number = <<item.number>>
                               /\ n.label = inputs[j]}
                IN /\ k \notin seenInputs => Cardinality(sent) = 1
                   /\ k \in seenInputs => sent = {}
                   /\ \A n \in sent : n.shown = settings.showNotifications]_vars

\* a response carried an input that an earlier response had carried, and
\* nothing was emitted
C10_Witness ==
    /\ observed # {}
    /\ emitted = {}
    /\ observed \subseteq notifiedInputs

\* C11 (as claimed): after a reconfiguration, every entry of the per-job state
\* and of the notified-input set is derived from data of the server now
\* configured, and a cycle that awaits its inventory will compare it against
\* per-job state recorded from the server the cycle asked; also when a cycle
\* was suspended at the moment of the reconfiguration.
C11_NoPreviousServerState ==
    /\ \A f \in DOMAIN previousStates : stateOrigin[f] = settings.jenkinsUrl
    /\ \A k \in notifiedInputs : inputOrigin[k] = settings.jenkinsUrl
    /\ \A c \in 1..Len(cycles) :
          cycles[c].pc = "items"
          => \A f \in DOMAIN previousStates : stateOrigin[f] = cycles[c].server

C13_DeliveredOnlyOnChange ==
    [][(delivered' # << >> /\ cycles' # cycles)
       => delivered'[1] # lastTrayStatus]_vars

\* a color carries the running suffix
Running(color) == color # << >> /\ color[Len(color)] = "_anime"

\* the base color: the color without its running suffix
BaseOf(color) == IF Running(color) THEN SubSeq(color, 1, Len(color) - 1) ELSE color

\* C14: for every inventory, the empty one included, the global status is red
\* if a job's base color is red (running or not), otherwise blue if a job's
\* color has the running suffix, otherwise yellow if a base color is yellow,
\* otherwise green if a base color is blue or green, otherwise gray.
C14_StatusPriority ==
    (arg # << >> /\ arg.op = "computeGlobalStatus")
    => LET colors == {arg.items[i].color : i \in 1..Len(arg.items)} IN
       result = IF \E c \in colors : BaseOf(c) = <<"red">> THEN "red"
                ELSE IF \E c \in colors : Running(c) THEN "blue"
                ELSE IF \E c \in colors : BaseOf(c) = <<"yellow">> THEN "yellow"
                ELSE IF \E c \in colors : BaseOf(c) \in { <<"blue">>, <<"green">> }
                     THEN "green"
                ELSE "gray"

\* the status of an inventory with a running job and a failed one is red
C14_Witness ==
    /\ arg # << >> /\ arg.op = "computeGlobalStatus"
    /\ Len(arg.items) = 2
    /\ arg.items[1].color = <<"blue", "_anime">>
    /\ arg.items[2].color = <<"red">>
    /\ result = "red"

\* the label the claim gives a base color
LabelOf(base) ==
    CASE base = <<"red">> -> "FAILED"
      [] base = <<"yellow">> -> "UNSTABLE"
      [] base = <<"aborted">> -> "ABORTED"
      [] base \in { <<"blue">>, <<"green">> } -> "SUCCESS"
      [] OTHER -> ""

\* C15: a terminal notification is labelled by the base color of the job
\* (red FAILED, yellow UNSTABLE, aborted ABORTED, blue or green SUCCESS) and
\* carries the new last-build number; a job that was recorded as running and
\* is now finished with one of these colors gets exactly one; the other base
\* colors emit nothing; the recorded state is updated in every case.
C15_LabelByBaseColor ==
    (arg # << >> /\ arg.op = "diffItems")
    => LET item == arg.item
           color == IF item.color = Undefined THEN <<"notbuilt">> ELSE item.color
           base == BaseOf(color)
       IN /\ \A n \in result.out :
                /\ n.kind = "terminal"
                /\ LabelOf(base) # ""
                /\ n.label = LabelOf(base)
                /\ n.number = item.lastBuild
                /\ n.fullname = item.fullname
          /\ (Running(arg.prev.color) /\ ~Running(color) /\ LabelOf(base) # "")
                => Cardinality(result.out) = 1
          /\ LabelOf(base) = "" => result.out = {}
          /\ result.states[item.fullname] =
                [color |-> color, lastBuildNumber |-> item.lastBuild]

\* a job recorded as running came back aborted with build 2: one ABORTED
\* notification for build 2, and the state records aborted, 2
C15_Witness ==
    /\ arg # << >> /\ arg.op = "diffItems"
    /\ arg.prev = [color |-> <<"blue", "_anime">>, lastBuildNumber |-> <<1>>]
    /\ arg.item.color = <<"aborted">> /\ arg.item.lastBuild = <<2>>
    /\ \E n \in result.out : n.label = "ABORTED" /\ n.number = <<2>>
    /\ result.states[<<"a">>] = [color |-> <<"aborted">>, lastBuildNumber |-> <<2>>]

\* C16: a detector cycle whose inventory fetch fails emits no notification and
\* calls no status callback, leaves the tray status, the per-job state and the
\* notified-input set unchanged and leaves the polling timer set, so that the
\* next timer tick obtains a client and runs a cycle.
C16_FailedCycleChangesNothing ==
    [][\A c \in 1..Len(cycles) :
         ItemsFail(c)
         => /\ emitted' = {}
            /\ delivered' = << >>
            /\ lastTrayStatus' = lastTrayStatus
            /\ previousStates' = previousStates
            /\ notifiedInputs' = notifiedInputs
            /\ pollTimer /\ pollTimer'
            /\ notifierGetApi(notifierApi', settings') # << >>]_vars

\* the inventory fetch of a cycle has just failed; the states and the
\* notified inputs recorded by an earlier cycle are there, the timer is set
C16_Witness ==
    /\ lastStep = "failed"
    /\ cycles = << >>
    /\ previousStates # << >>
    /\ notifiedInputs # {}
    /\ emitted = {}
    /\ pollTimer

\* C17 (as claimed): the completion of a fetch, successful or failed, never
\* by itself starts another fetch or restarts the interval timer: after the
\* immediate fetch, fetches start on a timer tick or an explicit refresh only.
C17_CompletionStartsNothing ==
    [][((\E fresh \in BOOLEAN : FetchSucceeds(fresh)) \/ FetchFails)
       => (started' = started /\ timers' = timers /\ cleanup' = cleanup)]_vars

\* C18 (as claimed): when the application goes from hidden to visible, a
\* mounted subscription that is enabled with an interval above 0 starts
\* exactly one fetch in that step and sets exactly one interval timer, none
\* having been set before, due one full interval later; and that timer stays
\* set, so that its first tick comes, as long as the subscription stays
\* mounted and its interval, enabled flag and visibility do not change.
C18_VisibleStartsOneFetchOneTimer ==
    [][/\ (VisibilityChange(TRUE) /\ mounted = "yes" /\ enabled /\ intervalMs > 0)
          => ( /\ started' = started + 1
               /\ pending' = pending + 1
               /\ timers = << >>
               /\ Cardinality(DOMAIN timers') = 1
               /\ \A id \in DOMAIN timers' :
                     /\ timers'[id].due = now + intervalMs
                     /\ timers'[id].interval = intervalMs )
       /\ \A id \in DOMAIN timers :
            ( /\ timers[id].by = "visible"
              /\ <<mounted', intervalMs', enabled', visible'>>
                    = <<mounted, intervalMs, enabled, visible>> )
            => ( /\ id \in DOMAIN timers'
                 /\ \/ timers'[id].due = timers[id].due
                    \/ /\ now = timers[id].due
                       /\ timers'[id].due = now + intervalMs )]_vars

\* C19: while the application is not visible a subscription has no interval
\* timer set and starts no fetch of its own, also when a fetch that was in
\* flight completes meanwhile; only an explicit refresh starts one.
C19_HiddenNoTimerNoFetch ==
    [][~visible' => ( /\ timers' = << >>
                      /\ started' = started \/ ExplicitRefresh )]_vars

\* a fetch completed with new data while the application was hidden, and the
\* enabled subscription has no timer and awaits no fetch
C19_Witness ==
    /\ ~visible
    /\ pollStep = "succeeded"
    /\ mounted = "yes" /\ enabled /\ intervalMs > 0
    /\ hookData # << >>
    /\ pending = 0
    /\ timers = << >>

\* C20: at every instant a subscription has at most one interval timer set,
\* and that timer was set by the latest run of the effect: it has the current
\* interval and is the one the next cleanup clears, and none is set while the
\* subscription is unmounted, disabled or hidden.
C20_AtMostOneTimer ==
    /\ Cardinality(DOMAIN timers) <= 1
    /\ \A id \in DOMAIN timers :
          /\ cleanup = <<id>>
          /\ timers[id].interval = intervalMs
          /\ mounted = "yes" /\ enabled /\ visible

\* the interval was changed to 15000 while two fetches were awaited: the one
\* timer set is the new one
C20_Witness ==
    /\ pollStep = "props"
    /\ intervalMs = 15000
    /\ now > 0
    /\ started = 2 /\ pending = 2
    /\ DOMAIN timers = {1}
    /\ timers[1] = [due |-> now + 15000, interval |-> 15000, by |-> "props"]

---------------------------------------------------------------------------
\* the stage lists the cache holds
StoredStageKeys == DOMAIN store \cap StageKeys

Terminal(status) == status \notin {"IN_PROGRESS", "PAUSED_PENDING_INPUT"}

\* C21 as stated: a stored stage list has the 24 h ttl exactly when every
\* stage status in it is terminal, and the 10 s ttl exactly when at least one
\* stage is IN_PROGRESS or PAUSED_PENDING_INPUT
C21_StageTTLByStatus ==
    \A k \in StoredStageKeys :
        LET stages == store[k].data.stages IN
        /\ store[k].ttl = 24 * 60 * 60000
              <=> \A i \in 1..Len(stages) : Terminal(stages[i])
        /\ store[k].ttl = 10000
              <=> \E i \in 1..Len(stages) : ~Terminal(stages[i])

\* C21 amended: a stored stage list has the 24 h ttl exactly when it is not
\* empty and every stage status in it is terminal, and the 10 s ttl exactly
\* when it is empty or at least one stage is IN_PROGRESS or
\* PAUSED_PENDING_INPUT
C21_StageTTLNonEmpty ==
    \A k \in StoredStageKeys :
        LET stages == store[k].data.stages IN
        /\ store[k].ttl = 24 * 60 * 60000
              <=> /\ stages # << >>
                  /\ \A i \in 1..Len(stages) : Terminal(stages[i])
        /\ store[k].ttl = 10000
              <=> \/ stages = << >>
                  \/ \E i \in 1..Len(stages) : ~Terminal(stages[i])

\* the list of a finished build is in the cache, requested while the list
\* of the build still running was cached
C21_Witness ==
    \E k \in StoredStageKeys :
        /\ store[k].data.stages = <<"SUCCESS", "SUCCESS">>
        /\ store[k].ttl = 24 * 60 * 60000
        /\ store[k].timestamp > 0
        /\ Len(stageFetches) = 2

---------------------------------------------------------------------------
\* the keys of job J's build history and of its stage lists
HistoryKeysOf(J) == {BuildsKey(J, l) : l \in Limits}

StageKeysOf(J) == {StageKey(J, n) : n \in StageNumbers}

\* the keys each mutating operation on job J is to remove
KeysToRemove(op, J) ==
    CASE op = "build-item" ->
            {ItemsAllKey, RunningBuildsKey} \cup HistoryKeysOf(J)
      [] op = "stop-build" -> {RunningBuildsKey} \cup HistoryKeysOf(J)
      [] op = "cancel-queue-item" -> {QueueAllKey}
      [] op \in {"submit-input", "abort-input"} ->
            {RunningBuildsKey} \cup HistoryKeysOf(J) \cup StageKeysOf(J)

\* mutating handler i returns successfully in this step
Returns(i) ==
    /\ mutating[i].status = "pending"
    /\ mutating'[i].status = "returned"

\* C22: right after a mutating handler returned successfully, the cache holds
\* no entry for the keys named for its operation: the inventory, the job's
\* build-history keys and running-builds for a triggered build; the job's
\* build-history keys and running-builds for a stopped build; the queue keys
\* for a cancelled queue item; the job's build-history keys, its stage keys
\* and running-builds for a submitted or aborted input
C22_NamedKeysRemoved ==
    [][\A i \in 1..Len(mutating) :
          Returns(i) =>
              DOMAIN store' \cap
                  KeysToRemove(mutating[i].op, mutating[i].fullname) = {}]_vars

\* a stage list was stored, a mutating handler returned and the cache is empty
C22_Witness ==
    /\ \E i \in 1..Len(mutating) : mutating[i].status = "returned"
    /\ \E i \in 1..Len(stageFetches) : stageFetches[i].status = "returned"
    /\ store = << >>

---------------------------------------------------------------------------
\* one of server URL, username and token is missing
CredentialMissing ==
    \/ settings.jenkinsUrl = ""
    \/ settings.jenkinsUsername = ""
    \/ settings.jenkinsToken = ""

\* a data-fetching or mutating handler is called in this step
HandlerCalled ==
    \/ GetAllItems \/ GetBuildHistory \/ GetRunningBuilds \/ GetQueueItems
    \/ \E fullname \in Fullnames, number \in StageNumbers :
            GetStages(fullname, number)
    \/ BuildItem \/ StopBuild \/ CancelQueueItem \/ SubmitInput \/ AbortInput

\* C23: while server URL, username or token is missing, every data-fetching
\* and every mutating handler rejects with the not-configured error: no
\* remote call is started, no cached value is returned, and the cache and
\* the in-flight map stay as they were
C23_UnconfiguredRejects ==
    [][(CredentialMissing /\ HandlerCalled) =>
          /\ ret'.op = "rejected" /\ ret'.data = NotConfigured
          /\ UNCHANGED <<store, inFlight>>
          /\ UNCHANGED <<promises, calls, stageFetches, mutating, api>>]_vars

\* a handler was rejected while the cache and the in-flight map held entries
C23_Witness ==
    /\ CredentialMissing
    /\ ret.op = "rejected"
    /\ store # << >>
    /\ inFlight # << >>

---------------------------------------------------------------------------
\* the remote stage fetches for key k that have not resolved yet
OutstandingStageFetches(k) ==
    {i \in 1..Len(stageFetches) :
        stageFetches[i].key = k /\ stageFetches[i].status = "pending"}

\* C24: stage-list requests for the same job and build, made while the cache
\* holds no unexpired stage list for their key, leave at most one remote
\* stage fetch outstanding for that key
C24_AtMostOneStageFetch ==
    \A k \in StageKeys : Cardinality(OutstandingStageFetches(k)) <= 1

---------------------------------------------------------------------------
\* a cachedFetch call for key k missed the cache in this step
MissedCall(k) ==
    /\ Len(calls') = Len(calls) + 1
    /\ \E ttl \in HandlerTTLs : CachedHandler(k, ttl)

\* C25: a fetch for key K that stays pending occupies K's in-flight entry
\* and no other: a cachedFetch call for K made meanwhile waits on that
\* fetch, a call for any other key waits on a fetch of its own key, and when
\* the fetch of another key resolves its data is stored and its in-flight
\* entry removed; invalidations and clears leave the pending entry in place
C25_PendingOccupiesOwnEntry ==
    [][\A p \in DOMAIN promises \cap DOMAIN promises' :
          LET K == promises[p].key IN
          /\ K \in DOMAIN inFlight /\ inFlight[K] = p
          /\ K \in DOMAIN inFlight' /\ inFlight'[K] = p
          /\ \A k \in DOMAIN inFlight' \ {K} : inFlight'[k] # p
          /\ MissedCall(K) => calls'[Len(calls')] = p
          /\ \A k \in FetchKeys \ {K} :
                MissedCall(k) =>
                    /\ calls'[Len(calls')] # p
                    /\ promises'[calls'[Len(calls')]].key = k
          /\ \A q \in DOMAIN promises \ DOMAIN promises' :
                (q \in DOMAIN settled' /\ settled'[q] = "resolved") =>
                    /\ promises[q].key \in DOMAIN store'
                    /\ store'[promises[q].key].data = promises[q].data
                    /\ promises[q].key \notin DOMAIN inFlight']_vars

\* the first fetch is still pending; a fetch for another key, started after
\* it, has resolved and its data is in the cache
C25_Witness ==
    /\ calls = <<1, 2>>
    /\ 1 \in DOMAIN promises
    /\ 2 \in DOMAIN settled /\ settled[2] = "resolved"
    /\ DOMAIN store # {}

---------------------------------------------------------------------------
\* the remote call of mutating handler i fails in this step
Throws(i) ==
    /\ mutating[i].status = "pending"
    /\ mutating'[i].status = "threw"

\* C26: when the remote call of a mutating operation fails, the handler
\* throws that error and invalidates nothing: the cache and the in-flight
\* map are the same after the failure as before it
C26_FailedMutationChangesNothing ==
    [][\A i \in 1..Len(mutating) :
          Throws(i) => UNCHANGED <<store, inFlight>>]_vars

\* a mutating handler threw while the cache held the running builds and the
\* queue, one of which every mutating operation names
C26_Witness ==
    /\ \E i \in 1..Len(mutating) : mutating[i].status = "threw"
    /\ {RunningBuildsKey, QueueAllKey} \subseteq DOMAIN store

---------------------------------------------------------------------------
\* the jobs of an inventory that carry the running suffix and have a last
\* build, each with that build's number
RECURSIVE ToQuery(_)
ToQuery(items) ==
    IF items = << >> THEN << >>
    ELSE (IF Running(Head(items).color) /\ Head(items).lastBuild # << >>
          THEN <<[fullname |-> Head(items).fullname,
                  number |-> Head(items).lastBuild[1]]>>
          ELSE << >>) \o ToQuery(Tail(items))

\* the jobs and builds a cycle has still to query for pending inputs
Queries(cycle) ==
    [j \in 1..Len(cycle.running) |->
        [fullname |-> cycle.running[j].fullname,
         number |-> cycle.running[j].number]]

\* the item loop has recorded the colors and builds of this inventory
Recorded(items, states) ==
    \A j \in 1..Len(items) :
        /\ items[j].fullname \in DOMAIN states
        /\ states[items[j].fullname].lastBuildNumber = items[j].lastBuild
        /\ states[items[j].fullname].color =
              (IF items[j].color = << >> THEN <<"notbuilt">>
               ELSE items[j].color)

AwaitingItems(cs) == {c \in 1..Len(cs) : cs[c].pc = "items"}

\* C27: a detector cycle fetches the inventory once; the jobs it queries for
\* pending inputs are exactly the jobs of that inventory that carry the
\* running suffix and have a last build, with that inventory's last-build
\* number, and each response is handled for the first of the jobs still to
\* query: both passes work on the one inventory the cycle fetched
C27_OneInventoryPerCycle ==
    [][/\ lastStep' # "tick" =>
              Cardinality(AwaitingItems(cycles')) <=
                  Cardinality(AwaitingItems(cycles))
       /\ \A c \in 1..Len(cycles) : \A items \in Inventories :
              ( /\ lastStep' = "items"
                /\ Recorded(items, previousStates')
                /\ ItemsArrive(c, items) ) =>
                  IF notifierApi' = << >> \/ ToQuery(items) = << >>
                  THEN cycles' = RemoveAt(cycles, c)
                  ELSE /\ Len(cycles') = Len(cycles)
                       /\ cycles'[c].pc = "inputs"
                       /\ Queries(cycles'[c]) = ToQuery(items)
       /\ \A c \in 1..Len(cycles) : \A inputs \in InputLists :
              (lastStep' = "inputs" /\ InputsArrive(c, inputs)) =>
                  LET first == Queries(cycles[c])[1] IN
                  /\ \A k \in observed' :
                        StartsWith(k, first.fullname \o <<":">>
                                          \o NumToStr(first.number) \o <<":">>)
                  /\ \/ cycles' = RemoveAt(cycles, c) /\ Len(cycles[c].running) = 1
                     \/ /\ Len(cycles') = Len(cycles)
                        /\ Queries(cycles'[c]) = Tail(Queries(cycles[c]))]_vars

\* an inventory of a finished job and a running one arrived: the cycle is
\* about to query the running job alone
C27_Witness ==
    /\ lastStep = "items"
    /\ \E c \in 1..Len(cycles) :
          /\ cycles[c].pc = "inputs"
          /\ Queries(cycles[c]) = <<[fullname |-> <<"a", "b">>, number |-> 1]>>
    /\ <<"a">> \in DOMAIN previousStates
    /\ stateOrigin[<<"a">>] = stateOrigin[<<"a", "b">>]

---------------------------------------------------------------------------
\* C28: a settings write that changes none of server URL, username and
\* token, and a connection test, leave the response cache, the detector's
\* per-job state and the set of notified inputs as they were
C28_PreferencesKeepState ==
    [][((\E partial \in PrefInputs : SettingsSet(partial)) \/ TestConnection)
          => UNCHANGED <<store, previousStates, notifiedInputs>>]_vars

---------------------------------------------------------------------------
\* C29: a build completion produces at most one terminal notification, also
\* when detector cycles overlap and their inventories are processed in another
\* order than they were requested: no item pass shows the result of a build
\* whose result the user has been shown before
C29_OneTerminalPerCompletion ==
    [][(lastStep' = "items" /\ cycles' # cycles) =>
          ResultsShown(emitted') \cap outside.seen = {}]_vars

---------------------------------------------------------------------------
\* the cache entry of key k is the same before and after the step
SameEntry(k) ==
    /\ k \in DOMAIN store <=> k \in DOMAIN store'
    /\ k \in DOMAIN store => store'[k] = store[k]

\* C30: a mutating operation on job A leaves the cached build-history and
\* stage entries of every other job B as they were, also when A's fullname
\* is a leading substring of B's
C30_OtherJobsUntouched ==
    [][\A i \in 1..Len(mutating) :
          (Returns(i) \/ Throws(i)) =>
              \A B \in Fullnames \ {mutating[i].fullname} :
                  \A k \in HistoryKeysOf(B) \cup StageKeysOf(B) :
                      SameEntry(k)]_vars

============================================================================
